---- MODULE Spec2Model ----
(***************************************************************************)
(* State-machine model of the AgTalk forum scraper: main.py (start-up and  *)
(* exit codes), scraper.py (listing and thread traversal), parser.py       *)
(* (extraction), database.py (posts table) and robots_checker.py.          *)
(***************************************************************************)
EXTENDS Integers, Sequences, FiniteSets, TLC

(***************************************************************************)
(* Bounds of the model.                                                    *)
(***************************************************************************)
MaxPages == 2
MaxStartPage == 2
MaxRuns == 2
MaxFailures == 1
MaxMarkers == 3
MaxClock == 3

(***************************************************************************)
(* Program constants.                                                      *)
(***************************************************************************)
PageSize == 50
MinContentLength == 10
ExtractPostDataParams == 2
ExtractPostDataArgs == 3
DefaultForumId == 3
OtherForumId == 7
MinRequestDelay == 10
DefaultRequestDelay == 20

(***************************************************************************)
(* URLs.  A URL is kept as its parts: the script it names, the fid/tid     *)
(* query parameter (0: absent), the bookmark/start offset (0: absent), the *)
(* remaining query decoration and the #post fragment (0: absent).          *)
(***************************************************************************)
Url(path, id, start, deco, frag) ==
    [path |-> path, id |-> id, start |-> start, deco |-> deco, frag |-> frag]

\* a listing URL whose bookmark is the number of threads on the pages before
get_forum_page_url_counting_from_zero(forum_id, p) ==
    IF p = 1
    THEN Url("forum-view", forum_id, 0, "displaytype=flat", 0)
    ELSE Url("forum-view", forum_id, (p - 1) * PageSize, "displaytype=flat", 0)

\* scraper.py get_forum_page_url
get_forum_page_url(forum_id, p) ==
    IF p = 1
    THEN Url("forum-view", forum_id, 0, "displaytype=flat", 0)
    ELSE Url("forum-view", forum_id, 1 + ((p - 1) * PageSize), "displaytype=flat", 0)

\* config.py ScraperConfig.forum_id: the first identifier only
forum_id(forum_ids) == forum_ids[1]

\* scraper.py get_forum_page_urls lines 72-75: the loop over the page range
RECURSIVE PageUrlsFrom(_, _, _)
PageUrlsFrom(fid, p, end_page) ==
    IF p <= end_page
    THEN <<get_forum_page_url(fid, p)>> \o PageUrlsFrom(fid, p + 1, end_page)
    ELSE <<>>

\* a range that ends one page early
get_forum_page_urls_short(a) ==
    PageUrlsFrom(forum_id(a.forum_ids), a.start_page, a.start_page + a.max_pages - 2)

\* scraper.py get_forum_page_urls lines 67-77
get_forum_page_urls(a) ==
    PageUrlsFrom(forum_id(a.forum_ids), a.start_page, a.start_page + a.max_pages - 1)

\* parser.py extract_post_urls line 35: the canonical thread URL
CleanUrl(tid) == Url("thread-view", tid, 0, "DisplayType=flat", 0)

\* scraper.py scrape_post lines 109-113: the URL of page p of a thread
ThreadPageUrl(tid, p) ==
    IF p = 1
    THEN Url("thread-view", tid, 0, "DisplayType=flat", 0)
    ELSE Url("thread-view", tid, 1 + ((p - 1) * PageSize), "displaytype=flat", 0)

\* scraper.py scrape_forum line 185: f"{post_url}#post{post_number}"
UniqueUrl(post_url, post_number) == [post_url EXCEPT !.frag = post_number]

(***************************************************************************)
(* Documents.  A parsed page is its title, its anchors in document order   *)
(* and its td.messageheader markers in document order.                     *)
(***************************************************************************)
Href(path, id, start, deco) ==
    [path |-> path, id |-> id, start |-> start, deco |-> deco]

\* the "Posted MM/DD/YYYY HH:MM" text of a header as <<MM, DD, YYYY, HH, MM>>
\* (<<>>: the header shows no such text)
PostedDate == <<3, 14, 2024, 9, 5>>

DatedMarker(profile, author, body, date) ==
    [profile |-> profile, author |-> author, body |-> body, date |-> date]

Marker(profile, author, body) ==
    DatedMarker(profile, author, body, IF profile THEN PostedDate ELSE <<>>)

\* the text of the <title> element is kept as a leading phrase and the rest
\* of the text
Doc(title, links, markers) ==
    [title |-> title, links |-> links, markers |-> markers]

TitlePrefix == "Viewing a thread - "

\* clean_text of a title that is the prefix alone: the trailing blank is gone
StrippedTitlePrefix == "Viewing a thread -"

LongBody == "a reply that is long enough"
ShortBody == "ok"
NineCharBody == "nine char"
TenCharBody == "ten chars!"

\* The site the crawl runs against (the unchanged source of two runs).
SiteDoc(url) ==
    IF url.path = "forum-view" THEN
        IF url.start = 0 THEN
            Doc(<<"", "Forum">>, <<Href("thread-view", 1, 0, "fid=3"),
                           Href("thread-view", 1, 0, "mid=9"),
                           Href("other", 0, 0, ""),
                           Href("thread-view", 2, 0, "")>>, <<>>)
        ELSE IF url.start = 1 + PageSize THEN
            Doc(<<"", "Forum">>, <<Href("thread-view", 2, 0, "mid=4"),
                           Href("topic-view", 0, 0, "x=1"),
                           Href("thread-view", 3, 0, "")>>, <<>>)
        ELSE
            Doc(<<"", "Forum">>, <<Href("thread-view", 3, 0, "")>>, <<>>)
    ELSE IF url.id = 1 THEN
        \* one page, two posts and one navigation header, no next-page link
        Doc(<<TitlePrefix, "Corn">>, <<>>,
            <<Marker(TRUE, "al", LongBody), Marker(FALSE, "", ""),
              Marker(TRUE, "bo", ShortBody)>>)
    ELSE IF url.id = 2 THEN
        \* three pages: 2 posts, 1 post, then an empty page
        IF url.start = 0 THEN
            Doc(<<TitlePrefix, "Hay">>,
                <<Href("thread-view", 2, 1 + PageSize, "")>>,
                <<Marker(TRUE, "cy", LongBody), Marker(TRUE, "di", LongBody)>>)
        ELSE IF url.start = 1 + PageSize THEN
            Doc(<<TitlePrefix, "Hay">>,
                <<Href("thread-view", 2, 1, ""),
                  Href("thread-view", 2, 1 + (2 * PageSize), "")>>,
                <<Marker(TRUE, "ed", LongBody)>>)
        ELSE
            Doc(<<TitlePrefix, "Hay">>, <<Href("thread-view", 2, 1, "")>>, <<>>)
    ELSE
        \* a thread page that carries only navigation headers
        Doc(<<"", "">>, <<>>, <<Marker(FALSE, "", "")>>)

(***************************************************************************)
(* parser.py                                                               *)
(***************************************************************************)
InSeq(x, s) == \E i \in 1..Len(s) : s[i] = x

\* extract_post_urls, lines 26-43: one link appended to post_urls
AppendLink(post_urls, href) ==
    IF href.path = "thread-view" /\ href.id > 0 THEN
        IF InSeq(CleanUrl(href.id), post_urls) THEN post_urls
        ELSE Append(post_urls, CleanUrl(href.id))
    ELSE IF href.path \in {"topic-view", "reply-view"} THEN
        LET full_url == Url(href.path, href.id, href.start, href.deco, 0)
        IN IF InSeq(full_url, post_urls) THEN post_urls
           ELSE Append(post_urls, full_url)
    ELSE post_urls

RECURSIVE CollectLinks(_, _, _)
CollectLinks(links, i, post_urls) ==
    IF i > Len(links) THEN post_urls
    ELSE CollectLinks(links, i + 1, AppendLink(post_urls, links[i]))

\* extract_post_urls, lines 45-51: the second duplicate-removing pass
RECURSIVE Unique(_, _, _)
Unique(urls, i, acc) ==
    IF i > Len(urls) THEN acc
    ELSE Unique(urls, i + 1, IF InSeq(urls[i], acc) THEN acc ELSE Append(acc, urls[i]))

extract_post_urls(doc) == Unique(CollectLinks(doc.links, 1, <<>>), 1, <<>>)

\* extract_post_data, lines 71-79: the thread title. clean_text (line 75)
\* strips the text before startswith is asked (line 76): a title that is the
\* prefix alone has lost its trailing blank and is kept whole (line 79).
MainTitle(doc) ==
    IF doc.title[1] = TitlePrefix
    THEN (IF doc.title[2] = "" THEN StrippedTitlePrefix ELSE doc.title[2])
    ELSE doc.title[1] \o doc.title[2]

\* a content policy that also replaces a body of exactly the minimum length
FormatContentInclusive(title, body) ==
    IF body = "" \/ Len(body) <= MinContentLength THEN
        IF title /= "" THEN <<"Subject: " \o title \o ", Post: [No additional content]">>
        ELSE <<>>
    ELSE
        <<"Subject: " \o (IF title /= "" THEN title ELSE "[No subject]")
            \o ", Post: " \o body>>

\* extract_post_data, lines 136-145: the content policy
\* (a one-element sequence, or <<>> when the record is dropped)
FormatContent(title, body) ==
    IF body = "" \/ Len(body) < MinContentLength THEN
        IF title /= "" THEN <<"Subject: " \o title \o ", Post: [No additional content]">>
        ELSE <<>>
    ELSE
        <<"Subject: " \o (IF title /= "" THEN title ELSE "[No subject]")
            \o ", Post: " \o body>>

\* an extraction that numbers a record by the position of its marker
AddMarkerNumberedByMarker(posts, doc, url, i) ==
    LET header == doc.markers[i]
        content == FormatContent(MainTitle(doc), header.body)
    IN IF ~header.profile THEN posts
       ELSE IF content = <<>> THEN posts
       ELSE Append(posts,
                [url |-> [url EXCEPT !.frag = i],
                 title |-> MainTitle(doc),
                 author |-> header.author,
                 post_date |-> header.date,
                 content |-> content[1],
                 thread_id |-> url.id,
                 post_number |-> i])

\* extract_post_data, lines 83-147: one marker (i is enumerate's index + 1)
AddMarker(posts, doc, url, i) ==
    LET header == doc.markers[i]
        content == FormatContent(MainTitle(doc), header.body)
    IN IF ~header.profile THEN posts
       ELSE IF content = <<>> THEN posts
       ELSE Append(posts,
                [url |-> [url EXCEPT !.frag = i],
                 title |-> MainTitle(doc),
                 author |-> header.author,
                 post_date |-> header.date,
                 content |-> content[1],
                 thread_id |-> url.id,
                 post_number |-> Len(posts) + 1])

\* extract_post_data lines 81-149: the loop over the markers. Every access
\* of the loop body is guarded (lines 87, 103, 112-114, 126-131), so no marker
\* of a parsed document takes the function to its handler at lines 151-153.
RECURSIVE CollectPosts(_, _, _, _)
CollectPosts(doc, url, i, posts) ==
    IF i > Len(doc.markers) THEN posts
    ELSE CollectPosts(doc, url, i + 1, AddMarker(posts, doc, url, i))

extract_post_data(doc, url) == CollectPosts(doc, url, 1, <<>>)

(***************************************************************************)
(* database.py: the posts table, one row per url                           *)
(***************************************************************************)
\* save_post lines 102-109: datetime.strptime(post_date, '%m/%d/%Y %H:%M');
\* an empty string or a ValueError gives NULL (<<>>)
DaysIn(month, year) ==
    IF month = 2
    THEN (IF year % 4 = 0 /\ (year % 100 /= 0 \/ year % 400 = 0) THEN 29 ELSE 28)
    ELSE IF month \in {4, 6, 9, 11} THEN 30 ELSE 31

post_timestamp(post_date) ==
    IF post_date = <<>> THEN <<>>
    ELSE IF /\ post_date[1] \in 1..12
            /\ post_date[2] \in 1..DaysIn(post_date[1], post_date[3])
            /\ post_date[3] >= 1
            /\ post_date[4] \in 0..23
            /\ post_date[5] \in 0..59
    THEN [year |-> post_date[3], month |-> post_date[1], day |-> post_date[2],
          hour |-> post_date[4], minute |-> post_date[5]]
    ELSE <<>>

\* the columns save_post writes; scraped_at is CURRENT_TIMESTAMP
Row(post_data, now) ==
    [url |-> post_data.url, title |-> post_data.title, author |-> post_data.author,
     post_date |-> post_timestamp(post_data.post_date),
     content |-> post_data.content, thread_id |-> post_data.thread_id,
     post_number |-> post_data.post_number, scraped_at |-> now]

\* post_exists: a psycopg2 error answers False
post_exists(table, url, db_ok) == db_ok /\ \E r \in table : r.url = url

\* a save_post whose INSERT leaves an existing row as it is
save_post_keeping_row(table, post_data, db_ok, now) ==
    IF db_ok /\ ~\E r \in table : r.url = post_data.url
    THEN table \cup {Row(post_data, now)}
    ELSE table

\* save_post: INSERT ... ON CONFLICT (url) DO UPDATE; an error leaves the table alone
save_post(table, post_data, db_ok, now) ==
    IF db_ok
    THEN {r \in table : r.url /= post_data.url} \cup {Row(post_data, now)}
    ELSE table

\* init_database: CREATE TABLE IF NOT EXISTS keeps the rows
init_database(table) == table

\* reset_database: DROP TABLE, then init_database
reset_database(table) == init_database({})

(***************************************************************************)
(* robots_checker.py                                                       *)
(***************************************************************************)
\* what _load_robots_txt leaves in robots_parser: None after an exception of
\* read() (lines 28-31); a parser that allows or denies the path; a parser
\* whose read() met a 5xx answer and parsed nothing ("unread": urllib's
\* can_fetch answers False until a file has been parsed); a parser whose
\* can_fetch raises
RobotsStates == {"None", "allow", "deny", "unread", "raises"}

\* can_fetch: no parser answers True, an error while asking answers False
can_fetch(parser) ==
    IF parser = "None" THEN TRUE
    ELSE IF parser = "raises" THEN FALSE
    ELSE parser = "allow"

(***************************************************************************)
(* scraper.py helpers                                                      *)
(***************************************************************************)
\* scrape_post line 118 hands extract_post_data three arguments where its
\* signature (parser.py line 60) takes two: the call raises TypeError
CallExtractPostData(doc, url) ==
    IF ExtractPostDataArgs = ExtractPostDataParams
    THEN [raised |-> FALSE, posts |-> extract_post_data(doc, url)]
    ELSE [raised |-> TRUE, posts |-> <<>>]

\* scrape_post lines 129-141
next_page_exists(doc, p) ==
    \E i \in 1..Len(doc.links) :
        doc.links[i].start > 0 /\ doc.links[i].start >= 1 + (p * PageSize)

\* a search that finds a thread ID in every URL
thread_match_any(post_url) == TRUE

\* scrape_post lines 99-102: re.search(r'tid=(\d+)', post_url) finds a number
thread_match(post_url) == post_url.id > 0

\* a handler that lets the exception leave scrape_post
ScrapePostHandlerRaises == "raise"

\* scrape_post lines 148-150: the handler of a failed thread page
ScrapePostHandler == "break"

\* the attributes of AgTalkScraper that main.py may call
ScraperMethods ==
    {"check_robots_compliance", "make_request", "get_forum_page_url",
     "get_forum_page_urls", "scrape_forum_page", "scrape_post", "scrape_forum"}

\* a validation that has no floor for the request delay
ConfigValidNoDelayFloor(a) ==
    /\ a.max_pages >= 1
    /\ a.start_page >= 1
    /\ Len(a.forum_ids) > 0
    /\ \A i \in 1..Len(a.forum_ids) : a.forum_ids[i] >= 1
    /\ a.base_url[1] \in {"http://", "https://"}

\* config.py __post_init__
ConfigValid(a) ==
    /\ a.request_delay >= MinRequestDelay
    /\ a.max_pages >= 1
    /\ a.start_page >= 1
    /\ Len(a.forum_ids) > 0
    /\ \A i \in 1..Len(a.forum_ids) : a.forum_ids[i] >= 1
    /\ a.base_url[1] \in {"http://", "https://"}

TransportFailures == {"http_error", "timeout", "connection_error"}

(***************************************************************************)
(* State                                                                   *)
(***************************************************************************)
VARIABLES
    args,            \* what main() hands ScraperConfig, and --reset-db
    pc,              \* where main() / scrape_forum() stands
    store,           \* the rows of the posts table
    robots_parser,   \* RobotsChecker.robots_parser ("unset" before construction)
    forum_urls, fi,  \* scrape_forum: the listing URLs and the loop position
    post_urls, pj,   \* scrape_forum: the thread URLs of the listing page and the position
    page,            \* scrape_post: page
    all_posts_data,  \* scrape_post: all_posts_data, then scrape_forum's posts_data
    k,               \* scrape_forum: position in posts_data
    total_scraped,   \* scrape_forum: total_scraped
    requests,        \* the make_request calls of this run, in order
    slept,           \* time.sleep(request_delay) has run since the last request
    failures,        \* transport and database failures met in this run
    exit_code,       \* the exit status of the process (-1: still running)
    exit_reason,     \* what ended the process
    scraped_count,   \* main: the value scrape_forum returned (-1: none)
    run,             \* the number of this execution of main()
    prev,            \* what the previous execution left: store, count, clean
    start_store,     \* the table when this run began, then the table when its
                     \* scrape_forum began
    written,         \* rows save_post has written in this run
    soup,            \* the document parsed last
    current_url,     \* scrape_post: current_url
    db_opened,       \* a database connection has been opened in this run
    clock            \* CURRENT_TIMESTAMP of the database

vars == <<args, pc, store, robots_parser, forum_urls, fi, post_urls, pj, page,
          all_posts_data, k, total_scraped, requests, slept, failures, exit_code,
          exit_reason, scraped_count, run, prev, start_store, written, soup,
          current_url, db_opened, clock>>

crawl_vars == <<forum_urls, fi, post_urls, pj, page, all_posts_data, k, total_scraped>>

\* a row of the posts table that the program finds there when it starts
ExistingRow(url) ==
    Row([url |-> url, title |-> "Corn", author |-> "al", post_date |-> PostedDate,
         content |-> "Subject: Corn, Post: " \o LongBody, thread_id |-> url.id,
         post_number |-> 1], 0)

\* what the posts table may hold when the program starts: init_database is
\* CREATE TABLE IF NOT EXISTS and keeps the rows. The table is empty, holds a
\* row under the URL of thread 1 (the URL scrape_forum asks post_exists
\* about), or a row under the URL of its first post.
InitialStores ==
    {{}, {ExistingRow(CleanUrl(1))}, {ExistingRow(UniqueUrl(CleanUrl(1), 1))}}

\* the forum identifiers --forum-id / --forum-ids may give
CliForumIds ==
    {<<>>, <<DefaultForumId>>, <<DefaultForumId, DefaultForumId>>,
     <<DefaultForumId, OtherForumId>>, <<0>>}

\* main lines 56-77: duplicates dropped in order, [3] when none is given
BuildForumIds(cli) ==
    IF Unique(cli, 1, <<>>) = <<>> THEN <<DefaultForumId>> ELSE Unique(cli, 1, <<>>)

\* main line 81
BaseUrl == <<"https://", "talk.newagtalk.com">>

\* the command lines of the model; --delay is kept in tenths of a second
ArgSets ==
    [forum_ids : {BuildForumIds(cli) : cli \in CliForumIds},
     start_page : 0..MaxStartPage,
     max_pages : 0..MaxPages,
     request_delay : {MinRequestDelay - 5, DefaultRequestDelay},
     base_url : {BaseUrl},
     reset_db : BOOLEAN]

NoDoc == Doc(<<"", "">>, <<>>, <<>>)
NoUrl == Url("", 0, 0, "", 0)

NoPrev == [store |-> {}, count |-> -1, clean |-> FALSE]

Init ==
    /\ args \in ArgSets
    /\ store \in InitialStores
    /\ pc = "config"
    /\ robots_parser = "unset"
    /\ forum_urls = <<>> /\ fi = 1
    /\ post_urls = <<>> /\ pj = 1
    /\ page = 1 /\ all_posts_data = <<>> /\ k = 1
    /\ total_scraped = 0
    /\ requests = <<>>
    /\ slept = FALSE
    /\ failures = 0
    /\ exit_code = -1
    /\ exit_reason = "running"
    /\ scraped_count = -1
    /\ run = 1
    /\ prev = NoPrev
    /\ start_store = store
    /\ written = 0
    /\ soup = NoDoc
    /\ current_url = NoUrl
    /\ db_opened = FALSE
    /\ clock = 1

\* sys.exit(code)
Exit(code, reason) ==
    /\ pc' = "exited"
    /\ exit_code' = code
    /\ exit_reason' = reason

Continue(next_pc) ==
    /\ pc' = next_pc
    /\ UNCHANGED <<exit_code, exit_reason>>

(***************************************************************************)
(* main.py                                                                 *)
(***************************************************************************)
\* main lines 79-86: ScraperConfig(...); a ValueError ends in sys.exit(1)
MainConfig ==
    /\ pc = "config"
    /\ IF ConfigValid(args) THEN Continue("init_db") ELSE Exit(1, "config_error")
    /\ UNCHANGED <<args, store, robots_parser, crawl_vars, requests, slept, failures,
                   scraped_count, run, prev, start_store, written, soup, current_url,
                   db_opened, clock>>

\* main line 89: DatabaseManager(config) runs init_database
MainInitDb ==
    /\ pc = "init_db"
    /\ \E db_ok \in BOOLEAN :
        /\ ~db_ok => failures < MaxFailures
        /\ IF db_ok
           THEN /\ store' = init_database(store)
                /\ failures' = failures
                /\ Continue(IF args.reset_db THEN "reset_db" ELSE "init_scraper")
           ELSE /\ UNCHANGED store
                /\ failures' = failures + 1
                /\ Exit(1, "db_error")
    /\ db_opened' = TRUE
    /\ UNCHANGED <<args, robots_parser, crawl_vars, requests, slept,
                   scraped_count, run, prev, start_store, written, soup, current_url,
                   clock>>

\* main lines 91-93: --reset-db.  reset_database commits the DROP before it
\* runs init_database, so a failure of the second step leaves the rows gone.
MainResetDb ==
    /\ pc = "reset_db"
    /\ \E outcome \in {"ok", "drop_failed", "init_failed"} :
        /\ outcome /= "ok" => failures < MaxFailures
        /\ IF outcome = "ok"
           THEN /\ store' = reset_database(store)
                /\ failures' = failures
                /\ Continue("init_scraper")
           ELSE /\ store' = IF outcome = "drop_failed" THEN store ELSE {}
                /\ failures' = failures + 1
                /\ Exit(1, "db_error")
    /\ UNCHANGED <<args, robots_parser, crawl_vars, requests, slept,
                   scraped_count, run, prev, start_store, written, soup, current_url,
                   db_opened, clock>>

\* main line 96: AgTalkScraper(...) builds RobotsChecker, which loads robots.txt
MainInitScraper ==
    /\ pc = "init_scraper"
    /\ \E r \in RobotsStates : robots_parser' = r
    /\ Continue("check_robots")
    /\ UNCHANGED <<args, store, crawl_vars, requests, slept, failures,
                   scraped_count, run, prev, start_store, written, soup, current_url,
                   db_opened, clock>>

\* a compliance check that lets every run through
check_robots_compliance_ignored(parser) == TRUE

\* scraper.py check_robots_compliance
check_robots_compliance(parser) == can_fetch(parser)

\* main lines 99-101
MainCheckRobots ==
    /\ pc = "check_robots"
    /\ IF check_robots_compliance(robots_parser)
       THEN Continue("dispatch")
       ELSE Exit(1, "robots_denied")
    /\ UNCHANGED <<args, store, robots_parser, crawl_vars, requests, slept, failures,
                   scraped_count, run, prev, start_store, written, soup, current_url,
                   db_opened, clock>>

\* scrape_forum lines 161-164: the locals the traversal starts with
scrape_forum_locals(a) ==
    [total_scraped |-> 0, forum_urls |-> get_forum_page_urls(a)]

\* main lines 106-110, scrape_forum lines 161-165
MainDispatch ==
    /\ pc = "dispatch"
    /\ IF Len(args.forum_ids) > 1
       THEN IF "scrape_forums" \in ScraperMethods
            THEN Continue("forums")
            ELSE Exit(1, "failed")      \* AttributeError, caught at line 117
       ELSE Continue("listing")
    /\ forum_urls' = IF Len(args.forum_ids) > 1 THEN <<>>
                     ELSE scrape_forum_locals(args).forum_urls
    /\ fi' = 1
    /\ total_scraped' = scrape_forum_locals(args).total_scraped
    /\ start_store' = store
    /\ UNCHANGED <<args, store, robots_parser, post_urls, pj, page, all_posts_data, k,
                   requests, slept, failures, scraped_count, run, prev, written, soup,
                   current_url, db_opened, clock>>

(***************************************************************************)
(* scraper.py                                                              *)
(***************************************************************************)
\* make_request lines 38-49: the sleep follows a 2xx response only; a failed
\* request raises before it
MakeRequest(url, outcome) ==
    /\ outcome /= "ok" => failures < MaxFailures
    /\ requests' = Append(requests, [url |-> url, outcome |-> outcome, delayed |-> slept])
    /\ slept' = (outcome = "ok")
    /\ failures' = IF outcome = "ok" THEN failures ELSE failures + 1

\* scrape_forum line 170, scrape_forum_page lines 81-91
ScrapeForumPage ==
    /\ pc = "listing"
    /\ fi <= Len(forum_urls)
    /\ \E outcome \in {"ok"} \cup TransportFailures :
        /\ MakeRequest(forum_urls[fi], outcome)
        /\ post_urls' = IF outcome = "ok"
                        THEN extract_post_urls(SiteDoc(forum_urls[fi]))
                        ELSE <<>>
        /\ soup' = IF outcome = "ok" THEN SiteDoc(forum_urls[fi]) ELSE soup
    /\ pj' = 1
    /\ Continue("threads")
    /\ UNCHANGED <<args, store, robots_parser, forum_urls, fi, page, all_posts_data, k,
                   total_scraped, scraped_count, run, prev, start_store, written,
                   current_url, db_opened, clock>>

\* scrape_forum lines 172-181 and scrape_post lines 95-104: the next thread
\* URL of the listing page, or the next listing page when none is left
ThreadGate ==
    /\ pc = "threads"
    /\ IF pj > Len(post_urls)
       THEN /\ fi' = fi + 1
            /\ Continue("listing")
            /\ UNCHANGED <<pj, page, all_posts_data, failures>>
       ELSE \E db_ok \in BOOLEAN :
            /\ ~db_ok => failures < MaxFailures
            /\ failures' = IF db_ok THEN failures ELSE failures + 1
            /\ fi' = fi
            /\ IF post_exists(store, post_urls[pj], db_ok) \/ ~thread_match(post_urls[pj])
               THEN /\ pj' = pj + 1
                    /\ Continue("threads")
                    /\ UNCHANGED <<page, all_posts_data>>
               ELSE /\ page' = 1
                    /\ all_posts_data' = <<>>
                    /\ Continue("thread_page")
                    /\ pj' = pj
    /\ UNCHANGED <<args, store, robots_parser, forum_urls, post_urls, k, total_scraped,
                   requests, slept, scraped_count, run, prev, start_store, written,
                   soup, current_url, db_opened, clock>>

\* scrape_post lines 106-157, one turn of the while loop, and the return to
\* scrape_forum line 181
ScrapeThreadPage ==
    /\ pc = "thread_page"
    /\ \E outcome \in {"ok"} \cup TransportFailures :
        LET url == ThreadPageUrl(post_urls[pj].id, page)
            doc == SiteDoc(url)
            call == CallExtractPostData(doc, url)
            failed == outcome /= "ok" \/ call.raised
            collected == IF failed THEN all_posts_data ELSE all_posts_data \o call.posts
            more == ~failed /\ call.posts /= <<>> /\ next_page_exists(doc, page)
        IN /\ MakeRequest(url, outcome)
           /\ current_url' = url
           /\ soup' = IF outcome = "ok" THEN doc ELSE soup
           /\ IF failed /\ ScrapePostHandler /= "break"
              THEN \* the exception leaves scrape_post: scrape_forum lines 196-198
                   /\ fi' = fi + 1
                   /\ Continue("listing")
                   /\ UNCHANGED <<pj, page, all_posts_data, k>>
              ELSE IF more
              THEN /\ page' = page + 1
                   /\ all_posts_data' = collected
                   /\ Continue("thread_page")
                   /\ UNCHANGED <<fi, pj, k>>
              ELSE IF collected /= <<>>
              THEN /\ all_posts_data' = collected
                   /\ k' = 1
                   /\ Continue("save")
                   /\ UNCHANGED <<fi, pj, page>>
              ELSE /\ all_posts_data' = collected
                   /\ pj' = pj + 1
                   /\ Continue("threads")
                   /\ UNCHANGED <<fi, page, k>>
    /\ UNCHANGED <<args, store, robots_parser, forum_urls, post_urls, total_scraped,
                   scraped_count, run, prev, start_store, written, db_opened, clock>>

\* scrape_forum line 200 and main lines 110-112
ScrapeForumReturn ==
    /\ pc = "listing"
    /\ fi > Len(forum_urls)
    /\ scraped_count' = total_scraped
    /\ Exit(0, "completed")
    /\ UNCHANGED <<args, store, robots_parser, crawl_vars, requests, slept, failures,
                   run, prev, start_store, written, soup, current_url, db_opened,
                   clock>>

\* the operator starts the program again with the same command line
NewRun ==
    /\ pc = "exited"
    /\ run < MaxRuns
    /\ run' = run + 1
    /\ prev' = [store |-> store, count |-> scraped_count,
                clean |-> failures = 0 /\ exit_reason = "completed"]
    /\ pc' = "config"
    /\ robots_parser' = "unset"
    /\ forum_urls' = <<>> /\ fi' = 1
    /\ post_urls' = <<>> /\ pj' = 1
    /\ page' = 1 /\ all_posts_data' = <<>> /\ k' = 1
    /\ total_scraped' = 0
    /\ requests' = <<>>
    /\ slept' = FALSE
    /\ failures' = 0
    /\ exit_code' = -1
    /\ exit_reason' = "running"
    /\ scraped_count' = -1
    /\ start_store' = store
    /\ written' = 0
    /\ soup' = NoDoc
    /\ current_url' = NoUrl
    /\ db_opened' = FALSE
    /\ clock' = clock + 1
    /\ UNCHANGED <<args, store>>

\* main lines 114-116: a KeyboardInterrupt raised inside the try block.  The
\* handlers of scraper.py and database.py catch Exception, which does not
\* cover it, so it leaves scrape_forum without a return value; main logs
\* "Scraping interrupted by user" and calls sys.exit(0).
Interrupt ==
    /\ pc /= "exited"
    /\ Exit(0, "interrupted")
    /\ UNCHANGED <<args, store, robots_parser, crawl_vars, requests, slept, failures,
                   scraped_count, run, prev, start_store, written, soup, current_url,
                   db_opened, clock>>

\* make_request line 40: the KeyboardInterrupt arrives while session.get waits
\* for the response of a thread page. scrape_post has built the URL (lines
\* 109-113), no response was received. (Inside the get of a listing page no
\* variable has changed yet: that is a step of Interrupt.)
InterruptInGet ==
    /\ pc = "thread_page"
    /\ current_url' = ThreadPageUrl(post_urls[pj].id, page)
    /\ Exit(0, "interrupted")
    /\ UNCHANGED <<args, store, robots_parser, crawl_vars, requests, slept, failures,
                   scraped_count, run, prev, start_store, written, soup,
                   db_opened, clock>>

\* make_request line 44: the KeyboardInterrupt arrives inside time.sleep. The
\* response was received, the delay is not completed and the caller parses
\* nothing.
InterruptInSleep ==
    /\ \/ pc = "listing" /\ fi <= Len(forum_urls)
       \/ pc = "thread_page"
    /\ LET url == IF pc = "listing" THEN forum_urls[fi]
                  ELSE ThreadPageUrl(post_urls[pj].id, page)
       IN /\ requests' = Append(requests, [url |-> url, outcome |-> "ok",
                                           delayed |-> slept])
          /\ current_url' = IF pc = "listing" THEN current_url ELSE url
    /\ slept' = FALSE
    /\ Exit(0, "interrupted")
    /\ UNCHANGED <<args, store, robots_parser, crawl_vars, failures,
                   scraped_count, run, prev, start_store, written, soup,
                   db_opened, clock>>

\* The save loop of scrape_forum (lines 183-194) has no action: the call at
\* scraper.py line 118 raises on every thread page, scrape_post hands
\* scrape_forum an empty list, the test of line 181 fails and line 183 is
\* never reached.
Next ==
    \/ MainConfig
    \/ MainInitDb
    \/ MainResetDb
    \/ MainInitScraper
    \/ MainCheckRobots
    \/ MainDispatch
    \/ ScrapeForumPage
    \/ ThreadGate
    \/ ScrapeThreadPage
    \/ ScrapeForumReturn
    \/ Interrupt
    \/ InterruptInGet
    \/ InterruptInSleep
    \/ NewRun

Spec == Init /\ [][Next]_vars

(***************************************************************************)
(* The parser on its own: extract_post_data applied to a document, one     *)
(* turn of its loop over the markers per step.                             *)
(***************************************************************************)
MarkerKinds ==
    {DatedMarker(FALSE, "", LongBody, <<>>), Marker(TRUE, "al", ""),
     Marker(TRUE, "bo", NineCharBody), Marker(TRUE, "cy", TenCharBody),
     Marker(TRUE, "di", LongBody), DatedMarker(TRUE, "ed", LongBody, <<>>)}

ParseDocs ==
    {Doc(title, <<>>, markers) :
        title \in {<<TitlePrefix, "Hay">>, <<TitlePrefix, "">>, <<"", "Forum">>,
                   <<"", "">>},
        markers \in UNION {[1..n -> MarkerKinds] : n \in 0..MaxMarkers}}

\* main.py line 35: the default of --max-pages
DefaultMaxPages == 10

\* the arguments of a run started without any option
DefaultArgs ==
    [forum_ids |-> <<DefaultForumId>>, start_page |-> 1, max_pages |-> DefaultMaxPages,
     request_delay |-> DefaultRequestDelay, base_url |-> BaseUrl, reset_db |-> FALSE]

ParseInit ==
    /\ pc = "extract"
    /\ soup \in ParseDocs
    /\ current_url \in {ThreadPageUrl(1, 1), ThreadPageUrl(2, 2)}
    /\ all_posts_data = <<>> /\ k = 1
    /\ args = DefaultArgs
    /\ store = {}
    /\ robots_parser = "allow"
    /\ forum_urls = <<>> /\ fi = 1
    /\ post_urls = <<>> /\ pj = 1
    /\ page = 1
    /\ total_scraped = 0
    /\ requests = <<>>
    /\ slept = FALSE
    /\ failures = 0
    /\ exit_code = -1
    /\ exit_reason = "running"
    /\ scraped_count = -1
    /\ run = 1
    /\ prev = NoPrev
    /\ start_store = store
    /\ written = 0
    /\ db_opened = FALSE
    /\ clock = 1

\* a loop body that gives up the document at a marker that yields no record
ExtractMarkerGivingUp ==
    /\ pc = "extract"
    /\ k <= Len(soup.markers)
    /\ IF AddMarker(all_posts_data, soup, current_url, k) = all_posts_data
       THEN all_posts_data' = <<>> /\ pc' = "extracted"
       ELSE /\ all_posts_data' = AddMarker(all_posts_data, soup, current_url, k)
            /\ pc' = pc
    /\ k' = k + 1
    /\ UNCHANGED <<args, store, robots_parser, forum_urls, fi, post_urls, pj, page,
                   total_scraped, requests, slept, failures, exit_code, exit_reason,
                   scraped_count, run, prev, start_store, written, soup, current_url,
                   db_opened, clock>>

\* extract_post_data lines 83-147: the loop body for marker k
ExtractMarker ==
    /\ pc = "extract"
    /\ k <= Len(soup.markers)
    /\ all_posts_data' = AddMarker(all_posts_data, soup, current_url, k)
    /\ pc' = pc
    /\ k' = k + 1
    /\ UNCHANGED <<args, store, robots_parser, forum_urls, fi, post_urls, pj, page,
                   total_scraped, requests, slept, failures, exit_code, exit_reason,
                   scraped_count, run, prev, start_store, written, soup, current_url,
                   db_opened, clock>>

\* extract_post_data line 149: return posts
ExtractReturn ==
    /\ pc = "extract"
    /\ k > Len(soup.markers)
    /\ pc' = "extracted"
    /\ UNCHANGED <<args, store, robots_parser, crawl_vars, requests, slept, failures,
                   exit_code, exit_reason, scraped_count, run, prev, start_store,
                   written, soup, current_url, db_opened, clock>>

ParseNext == ExtractMarker \/ ExtractReturn

ParseSpec == ParseInit /\ [][ParseNext]_vars

(***************************************************************************)
(* The table on its own: save_post called with any record, any number of   *)
(* times, the database clock moving on between the calls.                  *)
(***************************************************************************)
\* the urls of two threads
SaveUrls == {UniqueUrl(CleanUrl(1), 1), UniqueUrl(CleanUrl(3), 1)}

\* what a caller may hand save_post for a url: the post as the site shows
\* it, the post after an edit (with a date strptime rejects), and the post
\* without a date
SavePosts ==
    {[url |-> u, title |-> "Corn", author |-> "al", post_date |-> PostedDate,
      content |-> "Subject: Corn, Post: " \o LongBody, thread_id |-> u.id,
      post_number |-> 1] : u \in SaveUrls}
    \cup
    {[url |-> u, title |-> "Corn prices", author |-> "zed",
      post_date |-> <<13, 45, 2024, 9, 5>>,
      content |-> "Subject: Corn prices, Post: [No additional content]",
      thread_id |-> u.id + 1, post_number |-> 2] : u \in SaveUrls}
    \cup
    {[url |-> u, title |-> "", author |-> "", post_date |-> <<>>,
      content |-> "Subject: [No subject], Post: " \o TenCharBody, thread_id |-> u.id,
      post_number |-> 3] : u \in SaveUrls}

StoreInit ==
    /\ pc = "store"
    /\ store \in InitialStores
    /\ clock = 1
    /\ all_posts_data = <<>> /\ k = 1
    /\ written = 0
    /\ failures = 0
    /\ db_opened = TRUE
    /\ args = DefaultArgs
    /\ robots_parser = "allow"
    /\ forum_urls = <<>> /\ fi = 1
    /\ post_urls = <<>> /\ pj = 1
    /\ page = 1
    /\ total_scraped = 0
    /\ requests = <<>>
    /\ slept = FALSE
    /\ exit_code = -1
    /\ exit_reason = "running"
    /\ scraped_count = -1
    /\ run = 1
    /\ prev = NoPrev
    /\ start_store = store
    /\ soup = NoDoc
    /\ current_url = NoUrl

\* db_manager.save_post(post_data); all_posts_data keeps the record handed over
SaveCall ==
    /\ pc = "store"
    /\ clock <= MaxClock
    /\ \E post_data \in SavePosts, db_ok \in BOOLEAN :
        /\ ~db_ok => failures < MaxFailures
        /\ store' = save_post(store, post_data, db_ok, clock)
        /\ all_posts_data' = <<post_data>>
        /\ written' = written + (IF db_ok THEN 1 ELSE 0)
        /\ failures' = failures + (IF db_ok THEN 0 ELSE 1)
    /\ clock' = clock + 1
    /\ UNCHANGED <<args, pc, robots_parser, forum_urls, fi, post_urls, pj, page, k,
                   total_scraped, requests, slept, exit_code, exit_reason,
                   scraped_count, run, prev, start_store, soup, current_url,
                   db_opened>>

StoreNext == SaveCall

StoreSpec == StoreInit /\ [][StoreNext]_vars

(***************************************************************************)
(* Properties                                                              *)
(***************************************************************************)
Finished == pc = "exited" /\ exit_reason = "completed"

Interrupted == pc = "exited" /\ exit_reason = "interrupted"

\* a step of the traversal itself
CrawlStep == ScrapeForumPage \/ ThreadGate \/ ScrapeThreadPage \/ ScrapeForumReturn

IsThreadPage(url) == url.path = "thread-view"

\* the rows of a table that belong to thread tid
RowsOf(table, tid) == {r \in table : IsThreadPage(r.url) /\ r.url.id = tid}

\* the number of records extraction accepts on a page
Accepted(url) == Len(extract_post_data(SiteDoc(url), url))

\* how often a URL was requested in this run
RECURSIVE TimesRequested(_, _)
TimesRequested(url, i) ==
    IF i > Len(requests) THEN 0
    ELSE (IF requests[i].url = url THEN 1 ELSE 0) + TimesRequested(url, i + 1)

\* the accepted markers over the pages of thread tid fetched in this run
RECURSIVE AcceptedOnFetched(_, _)
AcceptedOnFetched(tid, i) ==
    IF i > Len(requests) THEN 0
    ELSE (IF IsThreadPage(requests[i].url) /\ requests[i].url.id = tid
             /\ requests[i].outcome = "ok"
          THEN Accepted(requests[i].url) ELSE 0) + AcceptedOnFetched(tid, i + 1)

\* the threads whose first page this run fetched successfully and of which
\* the table held nothing when the traversal began
NewThreadsFetched ==
    {requests[i].url.id : i \in
        {j \in 1..Len(requests) :
            /\ IsThreadPage(requests[j].url)
            /\ requests[j].url.start = 0
            /\ requests[j].outcome = "ok"
            /\ RowsOf(start_store, requests[j].url.id) = {}}}

\* C1: a new thread whose first page is fetched and holds k >= 1 accepted
\* posts and no next-page link ends the run with exactly the k records
\* {threadURL}#post1..#postk stored and at least k counted.
C1_NewThreadStored ==
    Finished =>
        \A tid \in NewThreadsFetched :
            LET first == ThreadPageUrl(tid, 1)
                n == Accepted(first)
            IN (n >= 1 /\ ~next_page_exists(SiteDoc(first), 1)) =>
                /\ {r.url : r \in RowsOf(store, tid)}
                     = {UniqueUrl(CleanUrl(tid), m) : m \in 1..n}
                /\ scraped_count >= n

\* C4: the post numbers stored for a newly crawled thread are exactly 1..N,
\* one row each, N being the accepted markers over the fetched pages.
C4_DensePostNumbers ==
    Finished =>
        \A tid \in NewThreadsFetched :
            LET n == AcceptedOnFetched(tid, 1)
            IN /\ {r.post_number : r \in RowsOf(store, tid)} = 1..n
               /\ Cardinality(RowsOf(store, tid)) = n

\* C5: when robots.txt denies the listing path the run ends with exit code 1
\* and has issued no request (the operator may interrupt it before that).
C5_DeniedNoRequests ==
    (robots_parser /= "unset" /\ ~can_fetch(robots_parser)) =>
        /\ requests = <<>>
        /\ pc \in {"check_robots", "exited"}
        /\ (pc = "exited" /\ ~Interrupted) => exit_code = 1

C5_Witness ==
    /\ robots_parser = "deny"
    /\ pc = "exited"
    /\ exit_code = 1
    /\ requests = <<>>

\* C6: every request but the first of a run is issued after the request
\* delay has been slept since the request before it.
C6_DelayBetweenRequests ==
    \A i \in 2..Len(requests) : requests[i].delayed

\* the listing requests of this run, in order
ListingRequests == SelectSeq(requests, LAMBDA r : r.url.path = "forum-view")

\* C7: a run that entered the traversal and is not interrupted by the
\* operator ends completed whatever failed on the way, has requested every listing page of the range in order, and has
\* requested page 1 of every thread with a tid that a fetched listing page
\* shows and the table does not hold.
C7_FailureIsolation ==
    /\ pc \in {"listing", "threads", "thread_page"} => ENABLED CrawlStep
    /\ (pc = "exited" /\ forum_urls /= <<>> /\ ~Interrupted) =>
        /\ Finished
        /\ exit_code = 0
        /\ scraped_count = total_scraped
        /\ [i \in 1..Len(ListingRequests) |-> ListingRequests[i].url] = forum_urls
        /\ \A i \in 1..Len(requests) :
            (requests[i].url.path = "forum-view" /\ requests[i].outcome = "ok") =>
                LET found == extract_post_urls(SiteDoc(requests[i].url))
                IN \A j \in 1..Len(found) :
                    (found[j].id /= 0 /\ ~post_exists(store, found[j], TRUE)) =>
                        \E m \in (i + 1)..Len(requests) :
                            requests[m].url = ThreadPageUrl(found[j].id, 1)

C7_Witness ==
    /\ Finished
    /\ \E i \in 1..Len(requests) :
        /\ IsThreadPage(requests[i].url)
        /\ requests[i].outcome /= "ok"
        /\ \E m \in (i + 1)..Len(requests) :
            /\ IsThreadPage(requests[m].url)
            /\ \A n \in (i + 1)..m : requests[n].url.path /= "forum-view"

\* C9: a thread whose pages 1 and 2 hold accepted posts and a next-page link
\* and whose page 3 holds no marker, walked once by a failure-free run that
\* found none of it stored, has the posts of pages 1 and 2 stored and page 3
\* requested exactly once.
C9_StopsAtEmptyPage ==
    (Finished /\ failures = 0) =>
        \A tid \in NewThreadsFetched :
            LET p1 == ThreadPageUrl(tid, 1)
                p2 == ThreadPageUrl(tid, 2)
                p3 == ThreadPageUrl(tid, 3)
            IN (/\ Accepted(p1) >= 1 /\ next_page_exists(SiteDoc(p1), 1)
                /\ Accepted(p2) >= 1 /\ next_page_exists(SiteDoc(p2), 2)
                /\ SiteDoc(p3).markers = <<>>
                /\ TimesRequested(p1, 1) = 1) =>
                    /\ TimesRequested(p3, 1) = 1
                    /\ Cardinality(RowsOf(store, tid)) = Accepted(p1) + Accepted(p2)

\* C10: a run that passed configuration, database and robots has, when it
\* ends, requested the listing URL of every configured forum and every page
\* of the range, and returned a count.
C10_AllForumsListed ==
    (pc = "exited" /\ exit_reason \notin {"config_error", "db_error", "robots_denied",
                                          "interrupted"}) =>
        /\ scraped_count >= 0
        /\ \A i \in 1..Len(args.forum_ids) :
            \A p \in args.start_page..(args.start_page + args.max_pages - 1) :
                TimesRequested(get_forum_page_url(args.forum_ids[i], p), 1) >= 1

\* C11: a run the operator interrupts during the traversal ends with exit
\* code 0 and reports the count of the records stored so far.
C11_InterruptKeepsCount ==
    (Interrupted /\ forum_urls /= <<>>) =>
        /\ exit_code = 0
        /\ scraped_count = total_scraped

\* C12: the exit code is non-zero exactly when the configuration is rejected,
\* the database fails at start-up or robots.txt denies the run; every other
\* run, with one forum identifier or several, completed or interrupted,
\* ends with exit code 0.
C12_ExitCodes ==
    pc = "exited" =>
        /\ exit_code \in {0, 1}
        /\ exit_code /= 0 <=>
              /\ ~Interrupted
              /\ \/ ~ConfigValid(args)
                 \/ exit_reason = "db_error"
                 \/ (robots_parser /= "unset" /\ ~can_fetch(robots_parser))
\* a configuration that has to be rejected: delay below 1.0 s (kept in
\* tenths), a page bound below 1, no forum identifier or one below 1, a base
\* URL without http(s) scheme
Rejected(a) ==
    \/ a.request_delay < 10
    \/ a.max_pages < 1
    \/ a.start_page < 1
    \/ a.forum_ids = <<>>
    \/ \E i \in 1..Len(a.forum_ids) : a.forum_ids[i] < 1
    \/ a.base_url[1] \notin {"http://", "https://"}

\* C13: a configuration that has to be rejected ends the run at its
\* construction with exit code 1 (unless the operator interrupts first), and
\* the run has opened no database connection, loaded no robots.txt and
\* issued no request.
C13_ConfigFatalBeforeIO ==
    Rejected(args) =>
        /\ pc \in {"config", "exited"}
        /\ (pc = "exited" /\ ~Interrupted) =>
              (exit_code = 1 /\ exit_reason = "config_error")
        /\ ~db_opened
        /\ robots_parser = "unset"
        /\ requests = <<>>

C13_Witness ==
    /\ pc = "exited"
    /\ exit_reason = "config_error"
    /\ exit_code = 1
    /\ args.request_delay < 10
    /\ args.max_pages >= 1 /\ args.start_page >= 1
    /\ \A i \in 1..Len(args.forum_ids) : args.forum_ids[i] >= 1
    /\ ~db_opened /\ robots_parser = "unset" /\ requests = <<>>

\* C14: a failure to load or to interpret robots.txt never ends the run as
\* denied: the gate answers that fetching is allowed.
C14_RobotsFailOpen ==
    robots_parser \in {"None", "unread", "raises"} =>
        /\ check_robots_compliance(robots_parser)
        /\ exit_reason /= "robots_denied"
\* the thread identifiers of the site
SiteThreads == 1..3

\* C15: on every listing page fetched, each thread-view link with a numeric
\* tid is found as the one canonical URL of its tid, the result has no
\* duplicate and keeps the order of first occurrences; every thread is
\* walked at most once in a run and the table holds one row per url.
C15_CanonicalSingleWalk ==
    /\ \A i \in 1..Len(requests) :
        (requests[i].url.path = "forum-view" /\ requests[i].outcome = "ok") =>
            LET links == SiteDoc(requests[i].url).links
                found == extract_post_urls(SiteDoc(requests[i].url))
                Canonical(tid) == Url("thread-view", tid, 0, "DisplayType=flat", 0)
                IsThreadLink(h) == h.path = "thread-view" /\ h.id > 0
                Pos(tid) == CHOOSE n \in 1..Len(found) : found[n] = Canonical(tid)
                First(tid) == CHOOSE n \in 1..Len(links) :
                                /\ IsThreadLink(links[n]) /\ links[n].id = tid
                                /\ \A m \in 1..(n - 1) :
                                      ~(IsThreadLink(links[m]) /\ links[m].id = tid)
            IN /\ \A j \in 1..Len(links) :
                    IsThreadLink(links[j]) =>
                        /\ \E n \in 1..Len(found) : found[n] = Canonical(links[j].id)
                        /\ \A n \in 1..Len(found) :
                              (IsThreadPage(found[n]) /\ found[n].id = links[j].id)
                                  => found[n] = Canonical(links[j].id)
               /\ \A a, b \in 1..Len(found) : a /= b => found[a] /= found[b]
               /\ \A a, b \in 1..Len(links) :
                    (IsThreadLink(links[a]) /\ IsThreadLink(links[b])
                        /\ First(links[a].id) < First(links[b].id))
                        => Pos(links[a].id) < Pos(links[b].id)
    /\ \A tid \in SiteThreads : TimesRequested(ThreadPageUrl(tid, 1), 1) <= 1
    /\ \A r1, r2 \in store : r1.url = r2.url => r1 = r2
\* the markers among the first n of the parsed document that yield a record:
\* those with an author-profile link and a subject or a body of 10 characters
Yielding(n) ==
    {i \in 1..n :
        /\ soup.markers[i].profile
        /\ (MainTitle(soup) /= "" \/ Len(soup.markers[i].body) >= 10)}

\* the marker behind the n-th record
MarkerOf(n) ==
    soup.markers[CHOOSE i \in Yielding(Len(soup.markers)) :
                    Cardinality(Yielding(i)) = n]

\* C16: a marker without an author-profile link yields no record and takes
\* no number: the records of a page are those of its yielding markers in
\* document order, numbered 1..k.
C16_DenseNumbersOnPage ==
    pc \in {"extract", "extracted"} =>
        /\ Len(all_posts_data) = Cardinality(Yielding(k - 1))
        /\ \A n \in 1..Len(all_posts_data) :
            /\ all_posts_data[n].post_number = n
            /\ MarkerOf(n).profile
            /\ all_posts_data[n].author = MarkerOf(n).author

C16_Witness ==
    /\ pc = "extracted"
    /\ Len(all_posts_data) = 2
    /\ Len(soup.markers) = 3
    /\ ~soup.markers[1].profile
    /\ all_posts_data[2].post_number = 2

\* C17: every record has content; a body that is empty or shorter than 10
\* under a subject gives the placeholder, without a subject no record; any
\* other body is wrapped with the subject or "[No subject]".
C17_ContentPolicy ==
    pc \in {"extract", "extracted"} =>
        /\ \A i \in 1..(k - 1) :
              (soup.markers[i].profile /\ MainTitle(soup) = ""
                  /\ Len(soup.markers[i].body) < 10) => i \notin Yielding(k - 1)
        /\ Len(all_posts_data) = Cardinality(Yielding(k - 1))
        /\ \A n \in 1..Len(all_posts_data) :
            LET subject == MainTitle(soup)
                body == MarkerOf(n).body
                content == all_posts_data[n].content
            IN /\ content /= ""
               /\ IF Len(body) < 10
                  THEN /\ subject /= ""
                       /\ content = "Subject: " \o subject
                                        \o ", Post: [No additional content]"
                  ELSE content = "Subject: "
                                   \o (IF subject = "" THEN "[No subject]" ELSE subject)
                                   \o ", Post: " \o body

C17_Witness ==
    /\ pc = "extracted"
    /\ Len(all_posts_data) = 2
    /\ all_posts_data[1].content = "Subject: Hay, Post: [No additional content]"
    /\ all_posts_data[2].content = "Subject: Hay, Post: ten chars!"
\* C18: a save_post that succeeds leaves exactly one row of the record's
\* url, holding the record's title, author, date, content, thread and number
\* and the time of the call; every other row is as it was, and a row is
\* added only when the url was not stored.
C18_OneRowPerUrl ==
    [][(pc = "store" /\ written' = written + 1) =>
          LET post_data == all_posts_data'[1]
              rows == {r \in store' : r.url = post_data.url}
          IN /\ Cardinality(rows) = 1
             /\ \A r \in rows :
                   /\ r.title = post_data.title
                   /\ r.author = post_data.author
                   /\ r.post_date = post_timestamp(post_data.post_date)
                   /\ r.content = post_data.content
                   /\ r.thread_id = post_data.thread_id
                   /\ r.post_number = post_data.post_number
                   /\ r.scraped_at = clock
             /\ store' \ rows = {r \in store : r.url /= post_data.url}
             /\ {r.url : r \in store'} = {r.url : r \in store} \cup {post_data.url}
             /\ \A r1, r2 \in store' : r1.url = r2.url => r1 = r2]_vars

C18_Witness ==
    /\ pc = "store"
    /\ written >= 2
    /\ Cardinality(store) = 1
    /\ \E r \in store :
        /\ r.url = UniqueUrl(CleanUrl(1), 1)
        /\ r.author = "zed"
        /\ r.post_date = <<>>
        /\ r.scraped_at = 3
\* C19: the listing URLs of a run are those of pages start_page ..
\* start_page + max_pages - 1 in ascending order; page 1 carries no
\* bookmark, page N > 1 the bookmark 1 + (N - 1) * 50, page 5 the bookmark 201.
C19_ListingUrls ==
    /\ get_forum_page_url(DefaultForumId, 5).start = 201
    /\ pc \in {"listing", "threads", "thread_page", "save"} =>
        /\ Len(forum_urls) = args.max_pages
        /\ \A i \in 1..Len(forum_urls) :
            LET N == args.start_page + i - 1
            IN /\ forum_urls[i].path = "forum-view"
               /\ forum_urls[i].id = args.forum_ids[1]
               /\ forum_urls[i].start = IF N = 1 THEN 0 ELSE 1 + ((N - 1) * 50)
    /\ \A i \in 1..Len(ListingRequests) : ListingRequests[i].url = forum_urls[i]

C19_Witness ==
    /\ Finished
    /\ args.start_page = 2
    /\ Len(ListingRequests) = 2
    /\ ListingRequests[1].url.start = 51
    /\ ListingRequests[2].url.start = 101
\* the page number a thread-page URL stands for
PageOf(url) == IF url.start = 0 THEN 1 ELSE ((url.start - 1) \div 50) + 1

\* C22: in a failure-free run, after page p of a thread was fetched and
\* yielded a record, page p + 1 is requested exactly when page p links a
\* start offset of at least 1 + p * 50; page 1 is requested in the canonical
\* form and page N > 1 with start = 1 + (N - 1) * 50.
C22_ContinuationRule ==
    (Finished /\ failures = 0) =>
        \A i \in 1..Len(requests) :
            IsThreadPage(requests[i].url) =>
                LET url == requests[i].url
                    p == PageOf(url)
                    links == SiteDoc(url).links
                    linked == \E n \in 1..Len(links) :
                                 links[n].start >= 1 + (p * 50)
                    yielded == Accepted(url) >= 1
                    continued == /\ i < Len(requests)
                                 /\ IsThreadPage(requests[i + 1].url)
                                 /\ requests[i + 1].url.id = url.id
                                 /\ PageOf(requests[i + 1].url) = p + 1
                IN /\ url.start = IF p = 1 THEN 0 ELSE 1 + ((p - 1) * 50)
                   /\ p = 1 => url.deco = "DisplayType=flat"
                   /\ continued <=> (yielded /\ linked)
\* C23: a marker from which no record can be extracted (no author-profile
\* link, or neither a subject nor a body of 10 characters) is skipped alone:
\* the list returned for the document holds a record for every other marker,
\* before and after it, in document order, and none for it.
C23_MalformedMarkerSkippedAlone ==
    pc = "extracted" =>
        /\ \A i \in 1..Len(soup.markers) :
            (i \in Yielding(Len(soup.markers)))
                <=> (\E n \in 1..Len(all_posts_data) : all_posts_data[n].url.frag = i)
        /\ \A m, n \in 1..Len(all_posts_data) :
            m < n => all_posts_data[m].url.frag < all_posts_data[n].url.frag

C23_Witness ==
    /\ pc = "extracted"
    /\ Len(soup.markers) = 3
    /\ Yielding(3) = {1, 3}
    /\ soup.markers[2].profile
    /\ Len(all_posts_data) = 2
    /\ all_posts_data[1].url.frag = 1
    /\ all_posts_data[2].url.frag = 3

\* C24: every record returned for page URL u has url = u#post<post_number>.
C24_UrlFragmentIsPostNumber ==
    pc \in {"extract", "extracted"} =>
        \A n \in 1..Len(all_posts_data) :
            all_posts_data[n].url
                = Url(current_url.path, current_url.id, current_url.start,
                      current_url.deco, all_posts_data[n].post_number)
\* the thread URLs of a listing page, in the order scrape_forum takes them
FoundOn(url) == extract_post_urls(SiteDoc(url))

\* C28: a link of a listing page that carries no numeric tid is never
\* requested and never stored, and the run goes on with the URL after it.
C28_NoTidNoRequest ==
    /\ \A i \in 1..Len(requests) :
        /\ requests[i].url.path \notin {"topic-view", "reply-view"}
        /\ requests[i].url.path /= "forum-view" => requests[i].url.id > 0
    /\ \A r \in store : r.url.path = "thread-view" /\ r.url.id > 0
    /\ pc = "thread_page" => post_urls[pj].id > 0
    /\ Finished =>
        \A i \in 1..Len(requests) :
            (requests[i].url.path = "forum-view" /\ requests[i].outcome = "ok") =>
                \A a \in 1..Len(FoundOn(requests[i].url)) :
                    \A b \in (a + 1)..Len(FoundOn(requests[i].url)) :
                        (FoundOn(requests[i].url)[a].id = 0
                            /\ FoundOn(requests[i].url)[b].id > 0) =>
                            \E m \in (i + 1)..Len(requests) :
                                requests[m].url =
                                    ThreadPageUrl(FoundOn(requests[i].url)[b].id, 1)

C28_Witness ==
    /\ Finished
    /\ \E i \in 1..Len(requests) :
        /\ requests[i].url.path = "forum-view"
        /\ requests[i].outcome = "ok"
        /\ \E a \in 1..Len(FoundOn(requests[i].url)) :
            /\ FoundOn(requests[i].url)[a].path = "topic-view"
            /\ FoundOn(requests[i].url)[a].id = 0
            /\ a < Len(FoundOn(requests[i].url))
            /\ \E m \in (i + 1)..Len(requests) :
                requests[m].url = ThreadPageUrl(FoundOn(requests[i].url)[a + 1].id, 1)

\* C29: scrape_forum requests the listing pages of the range in ascending
\* order, and a completed run has requested exactly max_pages of them,
\* whatever failed, was empty or was stored already.
C29_EveryListingPageRequested ==
    /\ \A i \in 1..Len(ListingRequests) :
        /\ i <= args.max_pages
        /\ ListingRequests[i].url.id = args.forum_ids[1]
        /\ ListingRequests[i].url.start =
              IF args.start_page + i - 1 = 1 THEN 0
              ELSE 1 + ((args.start_page + i - 2) * PageSize)
    /\ Finished => Len(ListingRequests) = args.max_pages

C29_Witness ==
    /\ Finished
    /\ args.max_pages = 2
    /\ Len(ListingRequests) = 2
    /\ ListingRequests[1].outcome /= "ok"
    /\ ListingRequests[2].outcome = "ok"
\* C27: a run that the robots.txt check ends leaves the table as it was
\* when the run began, whatever the command-line flags.
C27_DeniedRunLeavesStore ==
    exit_reason = "robots_denied" => store = start_store
====
